---- MODULE Spec2Model ----
(***************************************************************************)
(* Model of the two wizard scripts of the repository:                      *)
(*   migrar_sqlserver_a_mysql.py  (CREATE TABLE IF NOT EXISTS + copy)      *)
(*   actualizar.py                (UPDATE-only and UPSERT)                 *)
(* The SQL Server side is a read-only catalogue plus one cursor; the MySQL *)
(* side is a database with a committed state and the uncommitted view of   *)
(* the single connection (autocommit=False).                               *)
(***************************************************************************)
EXTENDS Integers, Sequences, FiniteSets, TLC

\* ------------------------------------------------------------------ bounds
\* Largest number of rows of a source table (and the range of its id column).
MaxRows == 3
\* batch_size is drawn from 1..MaxBatch (the scripts' default is 10_000).
MaxBatch == 2

\* ------------------------------------------------------------ small helpers
Range(s) == {s[i] : i \in 1..Len(s)}

Contains(s, e) == \E i \in 1..Len(s) : s[i] = e

Min2(x, y) == IF x <= y THEN x ELSE y

\* Position of column c in the column list cols (0 when absent).
IndexOf(cols, c) == IF Contains(cols, c) THEN CHOOSE i \in 1..Len(cols) : cols[i] = c ELSE 0

\* list(dict.fromkeys(s)): duplicates dropped, first-seen order kept.
Dedup(s) == SelectSeq([i \in 1..Len(s) |-> IF \E j \in 1..(i - 1) : s[j] = s[i] THEN "" ELSE s[i]], LAMBDA c : c # "")

\* ------------------------------------------------------------ the two catalogues
TableNames == {"t1", "t2"}

\* Columns of every source table, in ORDINAL_POSITION order.
AllCols == <<"id", "a", "b">>

\* Values of the non-key columns.
Vals == {1, 2}

\* What MySQL stores in a column that an INSERT does not name.
DefaultVal == 0

\* fetch_columns_sqlserver: one descriptor per column. identity is the set of
\* IDENTITY columns of the table.
fetch_columns_sqlserver(identity) ==
  [i \in 1..Len(AllCols) |->
     [name |-> AllCols[i],
      type |-> IF AllCols[i] = "a" THEN "varchar" ELSE "int",
      nullable |-> (AllCols[i] = "a"),
      is_identity |-> (AllCols[i] \in identity),
      default |-> "None"]]

ColNames(meta) == [i \in 1..Len(meta) |-> meta[i].name]

\* actualizar.py main: columns offered for update (no identity, no rowversion).
SafeCols(meta) ==
  ColNames(SelectSeq(meta, LAMBDA c : ~c.is_identity /\ c.type \notin {"timestamp", "rowversion"}))

\* choose_columns_interactive: empty input selects all offered columns; a name
\* that is not offered ends the run (the result "missing").
choose_columns_interactive(all_cols, sel) ==
  IF sel = <<>> THEN [ok |-> TRUE, cols |-> all_cols]
  ELSE IF \E i \in 1..Len(sel) : ~Contains(all_cols, sel[i]) THEN [ok |-> FALSE, cols |-> <<>>]
  ELSE [ok |-> TRUE, cols |-> sel]

\* ------------------------------------------------------------ rows and tables
\* The key of row r over the column list cols.
KeyOf(r, cols) == [i \in 1..Len(cols) |-> r[cols[i]]]

\* Lexicographic order of two key tuples of the same length.
RECURSIVE KeyLeq(_, _)
KeyLeq(k1, k2) ==
  IF Len(k1) = 0 THEN TRUE
  ELSE IF k1[1] < k2[1] THEN TRUE
  ELSE IF k1[1] > k2[1] THEN FALSE
  ELSE KeyLeq(Tail(k1), Tail(k2))

\* No two rows of the sequence rows agree on the (non-empty) key pk.
UniqueOn(rows, pk) ==
  pk = <<>> \/ \A i, j \in 1..Len(rows) : i # j => KeyOf(rows[i], pk) # KeyOf(rows[j], pk)

\* Every ordering of the set S as a sequence.
Perms(S) == {p \in [1..Cardinality(S) -> S] : \A i, j \in 1..Cardinality(S) : i # j => p[i] # p[j]}

\* The orders in which SELECT ... ORDER BY order_cols can return the rows S:
\* sorted on the key, ties (and everything, without ORDER BY) in any order.
SelectOrders(S, order_cols) ==
  {p \in Perms(S) : \A i \in 1..(Len(p) - 1) : KeyLeq(KeyOf(p[i], order_cols), KeyOf(p[i + 1], order_cols))}

\* One fetched row: the values of the selected columns, in select order.
Project(r, cols) == [i \in 1..Len(cols) |-> r[cols[i]]]

\* The result set of SELECT cols FROM table [WHERE a = w] in the order p.
\* where_clause is NoWhere (the empty answer: no filter) or a value w of Vals,
\* standing for the predicate a = w.
NoWhere == DefaultVal

ResultSet(p, cols, where_clause) ==
  LET kept == SelectSeq(p, LAMBDA r : where_clause = NoWhere \/ r["a"] = where_clause)
  IN  [i \in 1..Len(kept) |-> Project(kept[i], cols)]

\* ------------------------------------------------------------ MySQL statements
\* A target table: exists, its columns, its PRIMARY KEY and its rows (in
\* insertion order; a table without a key may hold equal rows).
NoTable == [exists |-> FALSE, cols |-> <<>>, pk |-> <<>>, rows |-> <<>>]

\* The row an INSERT (cols) VALUES (params) builds for table tbl.
NewRow(tbl, cols, params) ==
  [c \in Range(tbl.cols) |-> IF Contains(cols, c) THEN params[IndexOf(cols, c)] ELSE DefaultVal]

\* Indexes of the rows of tbl that collide with row new on the table's key.
Conflicts(tbl, new) ==
  IF tbl.pk = <<>> THEN {}
  ELSE {i \in 1..Len(tbl.rows) : KeyOf(tbl.rows[i], tbl.pk) = KeyOf(new, tbl.pk)}

\* Mutant of UpdateMatches: the WHERE predicate is lost.
UpdateMatchesAll(stmt, params, row) == TRUE

\* UPDATE ... SET set=%s.. WHERE where=%s..: params are the SET values followed
\* by the WHERE values.
UpdateMatches(stmt, params, row) ==
  \A j \in 1..Len(stmt.where) : row[stmt.where[j]] = params[Len(stmt.set) + j]

UpdatedRow(stmt, params, row) ==
  [c \in DOMAIN row |-> IF Contains(stmt.set, c) THEN params[IndexOf(stmt.set, c)] ELSE row[c]]

\* One execution of stmt with one parameter tuple on table tbl:
\* [ok, rows, affected]. ok = FALSE is a MySQL error (the rows are unchanged).
ExecOne(stmt, params, tbl) ==
  LET err == [ok |-> FALSE, rows |-> tbl.rows, affected |-> 0]
  IN
  IF ~tbl.exists THEN err
  ELSE IF stmt.kind = "UPDATE" THEN
    IF ~(Range(stmt.set) \cup Range(stmt.where) \subseteq Range(tbl.cols)) THEN err
    ELSE
      LET new == [i \in 1..Len(tbl.rows) |->
                    IF UpdateMatches(stmt, params, tbl.rows[i])
                    THEN UpdatedRow(stmt, params, tbl.rows[i]) ELSE tbl.rows[i]]
      IN  IF ~UniqueOn(new, tbl.pk) THEN err
          ELSE [ok |-> TRUE, rows |-> new,
                affected |-> Cardinality({i \in 1..Len(new) : new[i] # tbl.rows[i]})]
  ELSE
    IF ~(Range(stmt.cols) \subseteq Range(tbl.cols)) THEN err
    ELSE
      LET new == NewRow(tbl, stmt.cols, params)
          hit == Conflicts(tbl, new)
      IN
      IF hit = {} THEN [ok |-> TRUE, rows |-> Append(tbl.rows, new), affected |-> 1]
      ELSE IF stmt.kind = "INSERT" THEN err
      ELSE IF stmt.kind = "INSERT IGNORE" THEN [ok |-> TRUE, rows |-> tbl.rows, affected |-> 0]
      ELSE \* INSERT ... ON DUPLICATE KEY UPDATE c = VALUES(c), ...
        LET i == CHOOSE i \in hit : TRUE
            upd == [c \in DOMAIN tbl.rows[i] |->
                      IF Contains(stmt.set, c) THEN new[c] ELSE tbl.rows[i][c]]
            rows2 == [tbl.rows EXCEPT ![i] = upd]
        IN  IF ~UniqueOn(rows2, tbl.pk) THEN err
            ELSE [ok |-> TRUE, rows |-> rows2, affected |-> IF upd = tbl.rows[i] THEN 0 ELSE 2]

\* cursor.executemany(stmt, data) on table tbl: the tuples are applied in order
\* until one fails. [rows, failed, affected]: failed is the index of the tuple
\* that raised (0: none); rows holds what was applied before it.
RECURSIVE ExecMany(_, _, _, _, _)
ExecMany(stmt, data, tbl, i, affected) ==
  IF i > Len(data) THEN [rows |-> tbl.rows, failed |-> 0, affected |-> affected]
  ELSE LET r == ExecOne(stmt, data[i], tbl)
       IN  IF ~r.ok THEN [rows |-> tbl.rows, failed |-> i, affected |-> affected]
           ELSE ExecMany(stmt, data, [tbl EXCEPT !.rows = r.rows], i + 1, affected + r.affected)

executemany(stmt, data, tbl) == ExecMany(stmt, data, tbl, 1, 0)

\* CREATE TABLE IF NOT EXISTS table (cols, PRIMARY KEY pk) on database db.
CreateTableIfNotExists(db, table, cols, pk) ==
  IF db[table].exists THEN db
  ELSE [db EXCEPT ![table] = [exists |-> TRUE, cols |-> cols, pk |-> pk, rows |-> <<>>]]

\* ------------------------------------------------------------ statement planning
\* Mutant of UpdSetCols: the key columns are not removed.
UpdSetColsUnfiltered(upd_cols, pk_cols) == upd_cols

\* update_only: "No permitimos actualizar columnas PK".
UpdSetCols(upd_cols, pk_cols) == SelectSeq(upd_cols, LAMBDA c : ~Contains(pk_cols, c))

\* update_only: the UPDATE statement for the filtered upd_cols.
UpdateStatement(table, pk_cols, upd_cols) ==
  [kind |-> "UPDATE", table |-> table, cols |-> <<>>, set |-> upd_cols, where |-> pk_cols]

\* Mutant of BindUpdate: the row is bound in fetch order.
BindUpdateFetchOrder(r, pk_cols) == r

\* update_only: one fetched row (pk values first) reordered for the statement.
BindUpdate(r, pk_cols) == SubSeq(r, Len(pk_cols) + 1, Len(r)) \o SubSeq(r, 1, Len(pk_cols))

\* Mutant of NonPkUpd: every non-key column of the table is updated.
NonPkUpdAll(upd_cols, pk_cols) == SelectSeq(AllCols, LAMBDA c : ~Contains(pk_cols, c))

\* upsert_mode: columns of upd_cols that are not key columns.
NonPkUpd(upd_cols, pk_cols) == SelectSeq(upd_cols, LAMBDA c : ~Contains(pk_cols, c))

\* Mutant of UpsertStatement: no fallback, a plain INSERT when nothing is left
\* to update.
UpsertStatementNoFallback(table, pk_cols, non_pk_upd) ==
  [kind |-> IF non_pk_upd # <<>> THEN "UPSERT" ELSE "INSERT",
   table |-> table, cols |-> pk_cols \o non_pk_upd, set |-> non_pk_upd, where |-> <<>>]

\* Mutant of UpsertStatement: every inserted column is overwritten on a
\* collision and the other columns are reset.
UpsertStatementKeyless(table, pk_cols, non_pk_upd) ==
  [kind |-> IF non_pk_upd # <<>> THEN "UPSERT" ELSE "INSERT IGNORE",
   table |-> table, cols |-> non_pk_upd, set |-> non_pk_upd, where |-> <<>>]

\* upsert_mode: ON DUPLICATE KEY UPDATE when there is something to update,
\* INSERT IGNORE otherwise.
UpsertStatement(table, pk_cols, non_pk_upd) ==
  [kind |-> IF non_pk_upd # <<>> THEN "UPSERT" ELSE "INSERT IGNORE",
   table |-> table, cols |-> pk_cols \o non_pk_upd, set |-> non_pk_upd, where |-> <<>>]

\* main (actualizar.py): the key and the columns handed to upsert_mode.
PkForUpsert(pk_sql, pk_mysql) == IF pk_sql # <<>> THEN pk_sql ELSE pk_mysql

NeedCols(pk_for_upsert, upd_cols) == Dedup(pk_for_upsert \o upd_cols)

\* copy_table: the columns and the key kept for a column subset.
CopyCols(all_cols, only_cols) ==
  IF only_cols # <<>> THEN SelectSeq(all_cols, LAMBDA c : Contains(only_cols, c)) ELSE all_cols

\* Mutant of CopyPk: the key is declared whatever the subset.
CopyPkUnfiltered(pk, only_cols) == pk

CopyPk(pk, only_cols) ==
  IF only_cols # <<>> THEN SelectSeq(pk, LAMBDA c : Contains(only_cols, c)) ELSE pk

InsertStatement(table, col_names) ==
  [kind |-> "INSERT", table |-> table, cols |-> col_names, set |-> <<>>, where |-> <<>>]

\* The bind tuples of one fetched batch.
BindRows(stmt, rows, pk_cols) ==
  IF stmt.kind = "UPDATE" THEN [i \in 1..Len(rows) |-> BindUpdate(rows[i], pk_cols)] ELSE rows

\* Mutant of Considered: the rows MySQL reports as affected are counted.
ConsideredAsRowcount(data, affected) == affected

\* total += len(data): the rows counted for one written batch.
Considered(data, affected) == Len(data)

\* ------------------------------------------------------------ transactions
\* Mutant of Commit: the commit is lost.
CommitLost(working, committed) == committed

\* mysql_conn.commit(): the connection's view becomes the committed state.
Commit(working, committed) == working

\* mysql_cnx.rollback(): the connection's view returns to the committed state.
Rollback(working, committed) == committed

\* Mutant of CloseMysql: closing commits the open transaction.
CloseMysqlCommits(working, committed) == working

\* mysql_cnx.close(): the committed state once the connection is gone (the
\* server discards a transaction that is still open).
CloseMysql(working, committed) == committed

\* ------------------------------------------------------------ CREATE TABLE text
\* Text is a sequence of one-character strings.
UpperCase == <<"A", "B", "C", "D", "E", "F", "G", "H", "I", "J", "K", "L", "M", "N", "O", "P", "Q", "R", "S", "T", "U", "V", "W", "X", "Y", "Z">>

LowerCase == <<"a", "b", "c", "d", "e", "f", "g", "h", "i", "j", "k", "l", "m", "n", "o", "p", "q", "r", "s", "t", "u", "v", "w", "x", "y", "z">>

\* str.lower(), one character.
LowerChar(c) ==
  IF \E i \in 1..Len(UpperCase) : UpperCase[i] = c
  THEN LowerCase[CHOOSE i \in 1..Len(UpperCase) : UpperCase[i] = c]
  ELSE c

\* str.lower().
Lower(s) == [i \in 1..Len(s) |-> LowerChar(s[i])]

Whitespace == {" "}

\* str.lstrip(chars), str.rstrip(chars), str.strip(chars).
RECURSIVE LStrip(_, _)
LStrip(s, chars) == IF s # <<>> /\ Head(s) \in chars THEN LStrip(Tail(s), chars) ELSE s

RECURSIVE RStrip(_, _)
RStrip(s, chars) == IF s # <<>> /\ s[Len(s)] \in chars THEN RStrip(SubSeq(s, 1, Len(s) - 1), chars) ELSE s

Strip(s, chars) == RStrip(LStrip(s, chars), chars)

Digits == {"0", "1", "2", "3", "4", "5", "6", "7", "8", "9"}

AllDigits(s) == \A i \in 1..Len(s) : s[i] \in Digits

\* Position of the first c in s (0: none).
Find(s, c) == IF \E i \in 1..Len(s) : s[i] = c THEN CHOOSE i \in 1..Len(s) : s[i] = c /\ \A j \in 1..(i - 1) : s[j] # c ELSE 0

\* float(d) returns (it raises ValueError otherwise): optional sign, then
\* inf, infinity or nan, or digits with an optional point and an optional
\* exponent. (No text here has an underscore.)
IsFloat(d) ==
  LET s == Lower(Strip(d, Whitespace))
      u == IF s # <<>> /\ Head(s) \in {"+", "-"} THEN Tail(s) ELSE s
      e == Find(u, "e")
      mant == IF e = 0 THEN u ELSE SubSeq(u, 1, e - 1)
      ex == IF e = 0 THEN <<>> ELSE SubSeq(u, e + 1, Len(u))
      exd == IF ex # <<>> /\ Head(ex) \in {"+", "-"} THEN Tail(ex) ELSE ex
      p == Find(mant, ".")
      int == IF p = 0 THEN mant ELSE SubSeq(mant, 1, p - 1)
      frac == IF p = 0 THEN <<>> ELSE SubSeq(mant, p + 1, Len(mant))
  IN  \/ u \in {<<"i", "n", "f">>, <<"i", "n", "f", "i", "n", "i", "t", "y">>, <<"n", "a", "n">>}
      \/ /\ AllDigits(int)
         /\ AllDigits(frac)
         /\ Len(int) + Len(frac) > 0
         /\ e # 0 => (exd # <<>> /\ AllDigits(exd))

\* d.replace("\\", "\\\\").replace("'", "\\'").
RECURSIVE Escape(_)
Escape(s) ==
  IF s = <<>> THEN <<>>
  ELSE (IF Head(s) = "\\" THEN <<"\\", "\\">> ELSE IF Head(s) = "'" THEN <<"\\", "'">> ELSE <<Head(s)>>) \o Escape(Tail(s))

\* TYPE_MAP.
TYPE_MAP ==
  ("bigint" :> "BIGINT") @@
  ("int" :> "INT") @@
  ("smallint" :> "SMALLINT") @@
  ("tinyint" :> "TINYINT") @@
  ("bit" :> "TINYINT(1)") @@
  ("decimal" :> "DECIMAL") @@
  ("numeric" :> "DECIMAL") @@
  ("money" :> "DECIMAL(19,4)") @@
  ("smallmoney" :> "DECIMAL(10,4)") @@
  ("float" :> "DOUBLE") @@
  ("real" :> "FLOAT") @@
  ("varchar" :> "VARCHAR") @@
  ("nvarchar" :> "VARCHAR") @@
  ("char" :> "CHAR") @@
  ("nchar" :> "CHAR") @@
  ("text" :> "LONGTEXT") @@
  ("ntext" :> "LONGTEXT") @@
  ("date" :> "DATE") @@
  ("datetime" :> "DATETIME") @@
  ("datetime2" :> "DATETIME") @@
  ("smalldatetime" :> "DATETIME") @@
  ("time" :> "TIME") @@
  ("datetimeoffset" :> "DATETIME") @@
  ("binary" :> "BINARY") @@
  ("varbinary" :> "VARBINARY") @@
  ("image" :> "LONGBLOB") @@
  ("uniqueidentifier" :> "CHAR(36)") @@
  ("xml" :> "LONGTEXT") @@
  ("sql_variant" :> "JSON")

\* sqlserver_to_mysql_type: the MySQL type name and its arguments. A length
\* or precision of 0 stands for None.
sqlserver_to_mysql_type(col) ==
  LET mapped == IF col.type \in DOMAIN TYPE_MAP THEN TYPE_MAP[col.type] ELSE "TEXT"
  IN  IF mapped \in {"VARCHAR", "CHAR", "VARBINARY", "BINARY"}
      THEN [name |-> mapped, args |-> <<IF col.char_len > 0 THEN col.char_len ELSE 255>>]
      ELSE IF mapped = "DECIMAL"
      THEN [name |-> mapped, args |-> <<IF col.num_prec # 0 THEN col.num_prec ELSE 18, col.num_scale>>]
      ELSE [name |-> mapped, args |-> <<>>]

NoDefault == [clause |-> "", text |-> <<>>]

\* The spellings build_create_table_mysql compares the default with.
TimestampDefaults == {<<"g", "e", "t", "d", "a", "t", "e">>, <<"g", "e", "t", "d", "a", "t", "e", "(", ")">>, <<"s", "y", "s", "d", "a", "t", "e", "t", "i", "m", "e", "(", ")">>, <<"c", "u", "r", "r", "e", "n", "t", "_", "t", "i", "m", "e", "s", "t", "a", "m", "p">>}

NewidDefaults == {<<"n", "e", "w", "i", "d">>, <<"n", "e", "w", "i", "d", "(", ")">>}

\* build_create_table_mysql, the DEFAULT of one column: no clause, DEFAULT
\* CURRENT_TIMESTAMP, DEFAULT d for a number, DEFAULT 'd' for anything else.
\* The default <<>> stands for None.
DefaultClause(default) ==
  IF default = <<>> THEN NoDefault
  ELSE LET d == Strip(Strip(default, Whitespace), {"(", ")"})
       IN  IF Lower(d) \in TimestampDefaults THEN [clause |-> "DEFAULT CURRENT_TIMESTAMP", text |-> <<>>]
           ELSE IF Lower(d) \in NewidDefaults THEN NoDefault
           ELSE IF IsFloat(d) THEN [clause |-> "DEFAULT", text |-> d]
           ELSE [clause |-> "DEFAULT quoted", text |-> Escape(Strip(LStrip(d, {"N"}), {"'"}))]

\* build_create_table_mysql, one column definition.
ColumnDefinition(col) ==
  [name |-> col.name,
   type |-> sqlserver_to_mysql_type(col),
   auto_increment |-> col.is_identity,
   null |-> IF ~col.nullable \/ col.is_identity THEN "NOT NULL" ELSE "NULL",
   default |-> DefaultClause(col.default)]

\* Source defaults as INFORMATION_SCHEMA.COLUMNS gives them.
DefaultSamples == {
  <<>>,
  <<"(", "g", "e", "t", "d", "a", "t", "e", "(", ")", ")">>,
  <<"(", "s", "y", "s", "d", "a", "t", "e", "t", "i", "m", "e", "(", ")", ")">>,
  <<"C", "U", "R", "R", "E", "N", "T", "_", "T", "I", "M", "E", "S", "T", "A", "M", "P">>,
  <<"(", "n", "e", "w", "i", "d", "(", ")", ")">>,
  <<"(", "(", "0", ")", ")">>,
  <<"(", "(", "-", "1", ".", "5", ")", ")">>,
  <<"(", "'", "a", "b", "c", "'", ")">>,
  <<"(", "N", "'", "i", "t", "'", "'", "s", "'", ")">>,
  <<"(", "u", "s", "e", "r", "_", "n", "a", "m", "e", "(", ")", ")">>,
  <<"(", "a", "+", "1", ")">>,
  <<"(", "N", "U", "L", "L", ")">> }

\* ------------------------------------------------------------ state
VARIABLES
  script,        \* "migrar" or "actualizar": which wizard runs
  pc,            \* position in main
  outcome,       \* "" while running, then how main ended
  sql_cnx,       \* SQL Server connection: "none", "open", "closed"
  mysql_cnx,     \* MySQL connection: "none", "open", "closed"
  srcDb,         \* SQL Server: [tables, pk, identity, rows]
  tgt0,          \* MySQL database before the run
  committed,     \* MySQL database, committed state: table name -> table
  working,       \* MySQL database as the connection sees it (with uncommitted writes)
  tx,            \* TRUE while the connection has uncommitted writes
  mode,          \* "CREATE", "UPDATE" or "UPSERT"
  mysql_table,   \* actualizar: the "Tabla destino" answer
  table,         \* the source table in work (src_table / t)
  todo,          \* migrar: tables still to copy, the current one first
  only_cols,     \* migrar: the column subset (<<>>: all)
  pk_sql,        \* primary key read from SQL Server
  pk_mysql,      \* primary key read from MySQL
  upd_cols,      \* actualizar: the chosen columns
  where_clause,  \* actualizar: the optional filter
  batch_size,
  stmt,          \* the statement the loop executes
  pk_cols,       \* the key columns the loop binds with
  cursor,        \* rows the source cursor has not returned yet
  rows,          \* the batch fetched last
  rowcount,      \* cursor.rowcount of the last executemany
  total,         \* the loop's counter
  result,        \* the full result set of the loop's SELECT
  reported,      \* the total printed on completion (-1: nothing printed)
  writes,        \* sizes of the batches written and committed for the current table
  failed,        \* index of the batch whose write raised (0: none)
  tgtLog,        \* kinds of statements sent to MySQL so far
  interrupted,   \* a KeyboardInterrupt was raised
  fetches,       \* fetchmany calls so far
  run,           \* 1, or 2 when the same job is run again
  atStart,       \* the committed database when the current run began
  faults,        \* TRUE when writes may fail for reasons outside the data and the user may interrupt
  columns,       \* build_create_table_mysql: the column metadata it is given
  ddl_pk,        \* build_create_table_mysql: pk_cols
  parts,         \* build_create_table_mysql: the definitions built so far
  create_sql     \* build_create_table_mysql: the statement returned ("": not yet)

\* The transfer actions model CREATE TABLE by its effect
\* (CreateTableIfNotExists) and leave the statement builder's variables alone.
ddl == <<columns, ddl_pk, parts, create_sql>>
env == <<script, mode, srcDb, tgt0, faults, ddl>>
conn == <<sql_cnx, mysql_cnx>>
db == <<committed, working, tx>>
inp == <<mysql_table, table, todo, only_cols, pk_sql, pk_mysql, upd_cols, where_clause, batch_size>>
loop == <<stmt, pk_cols, cursor, rows, rowcount, total, result>>
hist == <<reported, writes, failed, tgtLog, interrupted, fetches, run, atStart>>
vars == <<pc, outcome, env, conn, db, inp, loop, hist>>

NoStmt == [kind |-> "", table |-> "", cols |-> <<>>, set |-> <<>>, where |-> <<>>]

\* ------------------------------------------------------------ input families
\* Source rows 1..n: ids 1..n, column a alternating over Vals, b = 1.
PatternRows(n) == {[id |-> i, a |-> 1 + (i % 2), b |-> 1] : i \in 1..n}

\* Target rows for the ids of S, with values that differ from most source rows.
TargetRowsOf(S) ==
  LET ids == SelectSeq([i \in 1..MaxRows |-> i], LAMBDA i : i \in S)
  IN  [k \in 1..Len(ids) |-> [id |-> ids[k], a |-> 2, b |-> 2]]

ExistingTable(pk, S) == [exists |-> TRUE, cols |-> AllCols, pk |-> pk, rows |-> TargetRowsOf(S)]

\* Sets of ids a target table starts with.
IdSets == {1..n : n \in 0..MaxRows} \cup {{MaxRows}}

SrcCatalogs ==
  {[tables |-> t, pk |-> k[1], identity |-> k[2], rows |-> [n \in TableNames |-> IF n = "t1" THEN PatternRows(m) ELSE PatternRows(1)]] :
     t \in {<<>>, <<"t1">>, <<"t1", "t2">>},
     k \in {<<<<>>, {}>>, <<<<"id">>, {}>>, <<<<"id">>, {"id"}>>, <<<<"id", "a">>, {}>>},
     m \in 0..MaxRows}

TargetDbs ==
  {[n \in TableNames |-> IF n = "t1" THEN t ELSE NoTable] :
     t \in {NoTable} \cup {ExistingTable(k, S) : k \in {<<>>, <<"id">>}, S \in IdSets}}

\* Richer tables for the UPSERT runs: source rows over two ids, so that a
\* source without primary key can hold two rows with the same id; target rows
\* over the same ids with their own values.
SrcUniverse == {[id |-> i, a |-> v, b |-> 1] : i \in {1, 2}, v \in Vals}

TgtUniverse == {[id |-> i, a |-> v, b |-> 2] : i \in {1, 2}, v \in Vals}

\* The rows of S as a sequence, ordered by (id, a).
AsTable(S) == CHOOSE p \in SelectOrders(S, <<"id", "a">>) : TRUE

UpsertCatalogs ==
  {[tables |-> <<"t1">>, pk |-> k[1], identity |-> k[2], rows |-> [n \in TableNames |-> IF n = "t1" THEN S ELSE {}]] :
     k \in {<<<<>>, {}>>, <<<<"id">>, {}>>, <<<<"id">>, {"id"}>>},
     S \in {S \in SUBSET SrcUniverse : Cardinality(S) <= MaxRows}} \ 
  {c \in [tables : {<<"t1">>}, pk : {<<"id">>}, identity : {{}, {"id"}}, rows : [TableNames -> SUBSET SrcUniverse]] :
     ~UniqueOn(AsTable(c.rows["t1"]), c.pk)}

UpsertTargets ==
  {[n \in TableNames |-> IF n = "t1" THEN [exists |-> TRUE, cols |-> AllCols, pk |-> k, rows |-> AsTable(S)] ELSE other] :
     k \in {<<>>, <<"id">>, <<"a">>},
     S \in {S \in SUBSET TgtUniverse : Cardinality(S) <= 2},
     other \in {NoTable, ExistingTable(<<"id">>, {})}} \ 
  {d \in [TableNames -> [exists : {TRUE}, cols : {AllCols}, pk : {<<"id">>, <<"a">>}, rows : {AsTable(S) : S \in SUBSET TgtUniverse}] \cup {NoTable, ExistingTable(<<"id">>, {})}] :
     ~UniqueOn(d["t1"].rows, d["t1"].pk)}

\* What the user may type as a column list.
Selections == {<<>>, <<"a">>, <<"b", "a">>, <<"id">>, <<"id", "a">>, <<"zz">>}

InitWith(modes, catalogs, targets, mayFail) ==
  /\ mode \in modes
  /\ script = (IF mode = "CREATE" THEN "migrar" ELSE "actualizar")
  /\ faults = mayFail
  /\ srcDb \in catalogs
  /\ tgt0 \in targets
  /\ committed = tgt0
  /\ working = tgt0
  /\ tx = FALSE
  /\ pc = "start"
  /\ outcome = ""
  /\ sql_cnx = "none"
  /\ mysql_cnx = "none"
  /\ mysql_table = ""
  /\ table = ""
  /\ todo = <<>>
  /\ only_cols = <<>>
  /\ pk_sql = <<>>
  /\ pk_mysql = <<>>
  /\ upd_cols = <<>>
  /\ where_clause = NoWhere
  /\ batch_size = 1
  /\ stmt = NoStmt
  /\ pk_cols = <<>>
  /\ cursor = <<>>
  /\ rows = <<>>
  /\ rowcount = 0
  /\ total = 0
  /\ result = <<>>
  /\ reported = -1
  /\ writes = <<>>
  /\ failed = 0
  /\ tgtLog = {}
  /\ interrupted = FALSE
  /\ fetches = 0
  /\ run = 1
  /\ atStart = tgt0

\* The statement builder at rest.
NoCreate == [table |-> "", parts |-> <<>>, pk |-> <<>>]

DdlIdle ==
  /\ columns = <<>>
  /\ ddl_pk = <<>>
  /\ parts = <<>>
  /\ create_sql = NoCreate

Init == InitWith({"CREATE", "UPDATE", "UPSERT"}, SrcCatalogs, TargetDbs, TRUE) /\ DdlIdle

\* sys.exit outside the try block of main: the process ends at once.
ExitNow(code) ==
  /\ pc' = "done"
  /\ outcome' = code

\* sys.exit inside the try block: SystemExit passes the except clauses and the
\* finally block runs.
ExitInTry(code) ==
  /\ pc' = "finally"
  /\ outcome' = code

\* ------------------------------------------------------------ connecting
\* main, both scripts: connect_sqlserver (the mode has been asked for).
ConnectSqlServer ==
  /\ pc = "start"
  /\ \E ok \in BOOLEAN :
       IF ok THEN /\ sql_cnx' = "open"
                  /\ pc' = "connect_mysql"
                  /\ outcome' = outcome
       ELSE /\ sql_cnx' = sql_cnx
            /\ ExitNow("connect_failed")
  /\ UNCHANGED <<env, mysql_cnx, db, mysql_table, table, todo, only_cols, pk_sql, pk_mysql, upd_cols, where_clause, batch_size, loop, hist>>

\* main, both scripts: connect_mysql. migrar also creates the database and
\* commits; actualizar has asked for the target table name.
ConnectMysql ==
  /\ pc = "connect_mysql"
  /\ \E ok \in BOOLEAN :
       IF ok THEN /\ mysql_cnx' = "open"
                  /\ pc' = IF script = "migrar" THEN "plan" ELSE "tables"
                  /\ outcome' = outcome
                  /\ tgtLog' = IF script = "migrar" THEN tgtLog \cup {"ddl", "commit"} ELSE tgtLog
                  /\ mysql_table' \in IF script = "migrar" THEN {""} ELSE TableNames
       ELSE /\ mysql_cnx' = mysql_cnx
            /\ ExitNow("connect_failed")
            /\ UNCHANGED <<tgtLog, mysql_table>>
  /\ UNCHANGED <<env, sql_cnx, db, table, todo, only_cols, pk_sql, pk_mysql, upd_cols, where_clause, batch_size, loop, reported, writes, failed, interrupted, fetches, run, atStart>>

\* ------------------------------------------------------------ actualizar.py main
\* fetch_tables_sqlserver and the "Tabla origen" prompt.
ActMain_ChooseTable ==
  /\ pc = "tables"
  /\ IF srcDb.tables = <<>> THEN ExitNow("no_tables") /\ table' = table
     ELSE \E name \in Range(srcDb.tables) \cup {""} :
            IF name = "" THEN ExitNow("bad_table") /\ table' = table
            ELSE /\ table' = name
                 /\ pc' = "columns"
                 /\ outcome' = outcome
  /\ UNCHANGED <<env, conn, db, mysql_table, todo, only_cols, pk_sql, pk_mysql, upd_cols, where_clause, batch_size, loop, hist>>

\* Column metadata, the source key, the columns to update and the filter.
ActMain_Columns ==
  /\ pc = "columns"
  /\ pk_sql' = srcDb.pk
  /\ \E sel \in Selections :
       LET chosen == choose_columns_interactive(SafeCols(fetch_columns_sqlserver(srcDb.identity)), sel)
       IN  IF ~chosen.ok THEN ExitNow("missing_columns") /\ UNCHANGED <<upd_cols, where_clause>>
           ELSE /\ upd_cols' = chosen.cols
                /\ where_clause' \in {NoWhere, 1}
                /\ pc' = "mysql_pk"
                /\ outcome' = outcome
  /\ UNCHANGED <<env, conn, db, mysql_table, table, todo, only_cols, pk_mysql, batch_size, loop, hist>>

\* Mutant of UpsertLacksKey: the check is dropped.
UpsertKeyUnchecked(pk) == FALSE

\* if not pk_mysql: UPSERT refuses a target without PRIMARY KEY (before the
\* summary, and again inside the try block).
UpsertLacksKey(pk) == pk = <<>>

\* fetch_mysql_pk_columns and the UPSERT validation that follows it.
ActMain_MysqlPk ==
  /\ pc = "mysql_pk"
  /\ pk_mysql' = working[mysql_table].pk
  /\ tgtLog' = tgtLog \cup {"catalog"}
  /\ IF mode = "UPSERT" /\ UpsertLacksKey(pk_mysql') THEN ExitNow("no_target_pk")
     ELSE pc' = "confirm" /\ outcome' = outcome
  /\ UNCHANGED <<env, conn, db, mysql_table, table, todo, only_cols, pk_sql, upd_cols, where_clause, batch_size, loop, reported, writes, failed, interrupted, fetches, run, atStart>>

\* The summary and the "Continuar?" prompt.
ActMain_Confirm ==
  /\ pc = "confirm"
  /\ \E yes \in BOOLEAN :
       IF yes THEN pc' = "try" /\ outcome' = outcome
       ELSE ExitNow("declined")
  /\ UNCHANGED <<env, conn, db, inp, loop, hist>>

\* The loop's SELECT: the cursor over the chosen columns of the source table.
OpenCursor(order, cols, where) ==
  /\ result' = ResultSet(order, cols, where)
  /\ cursor' = result'
  /\ rows' = <<>>
  /\ rowcount' = 0
  /\ total' = 0
  /\ reported' = -1
  /\ writes' = <<>>

\* Mutant of UpdateLacksKey: the check is dropped.
UpdateKeyUnchecked(pk) == FALSE

\* main, UPDATE branch: "UPDATE requiere PK para armar el WHERE. Cancelo."
UpdateLacksKey(pk) == pk = <<>>

\* main's UPDATE branch and update_only up to its loop.
update_only_Begin ==
  /\ pc = "try"
  /\ mode = "UPDATE"
  /\ IF UpdateLacksKey(pk_sql) THEN
       /\ ExitInTry("no_source_pk")
       /\ UNCHANGED <<batch_size, loop, reported, writes>>
     ELSE IF UpdSetCols(upd_cols, pk_sql) = <<>> THEN
       /\ pc' = "finally"
       /\ outcome' = "ok"
       /\ UNCHANGED <<batch_size, loop, reported, writes>>
     ELSE
       /\ batch_size' \in 1..MaxBatch
       /\ stmt' = UpdateStatement(table, pk_sql, UpdSetCols(upd_cols, pk_sql))
       /\ pk_cols' = pk_sql
       /\ \E order \in SelectOrders(srcDb.rows[table], pk_sql) :
            OpenCursor(order, pk_sql \o UpdSetCols(upd_cols, pk_sql), where_clause)
       /\ pc' = "fetch"
       /\ outcome' = outcome
  /\ UNCHANGED <<env, conn, db, mysql_table, table, todo, only_cols, pk_sql, pk_mysql, upd_cols, where_clause, failed, tgtLog, interrupted, fetches, run, atStart>>

\* main's UPSERT branch and upsert_mode up to its loop.
upsert_mode_Begin ==
  /\ pc = "try"
  /\ mode = "UPSERT"
  /\ IF UpsertLacksKey(pk_mysql) THEN
       /\ ExitInTry("no_target_pk")
       /\ UNCHANGED <<batch_size, loop, reported, writes>>
     ELSE
       LET pk_for_upsert == PkForUpsert(pk_sql, pk_mysql)
           non_pk_upd == NonPkUpd(NeedCols(pk_for_upsert, upd_cols), pk_for_upsert)
       IN
       /\ batch_size' \in 1..MaxBatch
       /\ stmt' = UpsertStatement(table, pk_for_upsert, non_pk_upd)
       /\ pk_cols' = pk_for_upsert
       /\ \E order \in SelectOrders(srcDb.rows[table], pk_for_upsert) :
            OpenCursor(order, pk_for_upsert \o non_pk_upd, where_clause)
       /\ pc' = "fetch"
       /\ outcome' = outcome
  /\ UNCHANGED <<env, conn, db, mysql_table, table, todo, only_cols, pk_sql, pk_mysql, upd_cols, where_clause, failed, tgtLog, interrupted, fetches, run, atStart>>

\* ------------------------------------------------------------ the batch loop
\* Mutant of fetchmany: one row too many per batch.
fetchmanyOneMore(cur, n) == SubSeq(cur, 1, Min2(n + 1, Len(cur)))

\* rows = sql_cur.fetchmany(batch_size): the next batch_size rows (fewer at the
\* end, none after it).
fetchmany(cur, n) == SubSeq(cur, 1, Min2(n, Len(cur)))

\* One pass of "rows = fetchmany; if not rows: break": an empty batch ends the
\* loop, the total is printed and control goes to after.
LoopFetch(after, done) ==
  /\ pc = "fetch"
  /\ rows' = fetchmany(cursor, batch_size)
  /\ cursor' = SubSeq(cursor, Len(rows') + 1, Len(cursor))
  /\ fetches' = fetches + 1
  /\ IF rows' = <<>> THEN /\ reported' = total
                          /\ pc' = after
                          /\ outcome' = done
     ELSE /\ reported' = reported
          /\ pc' = "write"
          /\ outcome' = outcome
  /\ UNCHANGED <<env, conn, db, mysql_table, table, only_cols, pk_sql, pk_mysql, upd_cols, where_clause, batch_size>>
  /\ UNCHANGED <<stmt, pk_cols, rowcount, total, result, writes, failed, tgtLog, interrupted, run, atStart>>

\* The tuple of data at which executemany raises (0: it returns): the first
\* tuple MySQL rejects, or an earlier tuple j at which the connection fails.
RaisesAt(r, j) == IF r.failed # 0 /\ (j = 0 \/ r.failed <= j) THEN r.failed ELSE j

\* mysql_cur.executemany(sql, data): on success the batch is in the
\* connection's view, uncommitted; on an exception the tuples before the
\* failing one are, and control goes to main's except clause.
LoopWrite ==
  /\ pc = "write"
  /\ LET data == BindRows(stmt, rows, pk_cols)
         tbl == working[stmt.table]
         r == executemany(stmt, data, tbl)
     IN  \E j \in (IF faults THEN 0..Len(data) ELSE {0}) :
           LET f == RaisesAt(r, j)
           IN  IF f = 0 THEN
                 /\ working' = [working EXCEPT ![stmt.table].rows = r.rows]
                 /\ rowcount' = r.affected
                 /\ pc' = "commit"
                 /\ failed' = failed
               ELSE
                 /\ working' = [working EXCEPT ![stmt.table].rows = executemany(stmt, SubSeq(data, 1, f - 1), tbl).rows]
                 /\ rowcount' = rowcount
                 /\ pc' = "except"
                 /\ failed' = Len(writes) + 1
  /\ tx' = TRUE
  /\ tgtLog' = tgtLog \cup {"dml"}
  /\ UNCHANGED <<outcome, env, conn, committed, inp, stmt, pk_cols, cursor, rows, total, result, reported, writes, interrupted, fetches, run, atStart>>

\* Mutant of LoopCommit: the commit is left for the end of the loop.
LoopCommitDeferred ==
  /\ pc = "commit"
  /\ total' = total + Considered(rows, rowcount)
  /\ writes' = Append(writes, Len(rows))
  /\ pc' = "fetch"
  /\ UNCHANGED <<outcome, env, conn, db, inp, stmt, pk_cols, cursor, rows, rowcount, result, reported, failed, tgtLog, interrupted, fetches, run, atStart>>

\* mysql_conn.commit(); total += len(data).
LoopCommit ==
  /\ pc = "commit"
  /\ committed' = Commit(working, committed)
  /\ tx' = FALSE
  /\ total' = total + Considered(rows, rowcount)
  /\ writes' = Append(writes, Len(rows))
  /\ tgtLog' = tgtLog \cup {"commit"}
  /\ pc' = "fetch"
  /\ UNCHANGED <<outcome, env, conn, working, inp, stmt, pk_cols, cursor, rows, rowcount, result, reported, failed, interrupted, fetches, run, atStart>>

update_only_Fetch == mode = "UPDATE" /\ LoopFetch("finally", "ok") /\ todo' = todo

update_only_Write == mode = "UPDATE" /\ LoopWrite

update_only_Commit == mode = "UPDATE" /\ LoopCommit

upsert_mode_Fetch == mode = "UPSERT" /\ LoopFetch("finally", "ok") /\ todo' = todo

upsert_mode_Write == mode = "UPSERT" /\ LoopWrite

upsert_mode_Commit == mode = "UPSERT" /\ LoopCommit

\* ------------------------------------------------------------ leaving main
\* Mutant of Except: the error is caught inside the loop, which goes on with
\* the next batch.
ExceptContinues ==
  /\ pc = "except"
  /\ working' = Rollback(working, committed)
  /\ tx' = FALSE
  /\ tgtLog' = tgtLog \cup {"rollback"}
  /\ pc' = "fetch"
  /\ outcome' = outcome
  /\ UNCHANGED <<env, conn, committed, inp, loop, reported, writes, failed, interrupted, fetches, run, atStart>>

\* except Exception: the error is printed and the transaction rolled back; a
\* rollback that raises is ignored.
Except ==
  /\ pc = "except"
  /\ \E ok \in BOOLEAN :
       IF ok THEN working' = Rollback(working, committed) /\ tx' = FALSE
       ELSE UNCHANGED <<working, tx>>
  /\ tgtLog' = tgtLog \cup {"rollback"}
  /\ pc' = "finally"
  /\ outcome' = "error"
  /\ UNCHANGED <<env, conn, committed, inp, loop, reported, writes, failed, interrupted, fetches, run, atStart>>

\* finally: both cursors and both connections are closed.
Finally ==
  /\ pc = "finally"
  /\ sql_cnx' = "closed"
  /\ mysql_cnx' = "closed"
  /\ committed' = CloseMysql(working, committed)
  /\ working' = committed'
  /\ tx' = FALSE
  /\ pc' = "done"
  /\ UNCHANGED <<outcome, env, inp, loop, hist>>

\* Where control is inside main's try block.
TryPcs == {"try", "plan", "copy", "fetch", "write", "commit"}

\* Ctrl-C inside the try block: except KeyboardInterrupt prints and falls
\* through to finally.
KeyboardInterrupt ==
  /\ faults
  /\ pc \in TryPcs
  /\ interrupted' = TRUE
  /\ pc' = "finally"
  /\ outcome' = "interrupted"
  /\ UNCHANGED <<env, conn, db, inp, loop, reported, writes, failed, tgtLog, fetches, run, atStart>>

\* Where control is between the connections and the try block.
PromptPcs == IF script = "migrar" THEN {"connect_mysql"} ELSE {"connect_mysql", "tables", "columns", "mysql_pk", "confirm"}

\* Ctrl-C at a prompt before the try block: nothing catches it.
PromptInterrupt ==
  /\ faults
  /\ pc \in PromptPcs
  /\ interrupted' = TRUE
  /\ ExitNow("uncaught")
  /\ UNCHANGED <<env, conn, db, inp, loop, reported, writes, failed, tgtLog, fetches, run, atStart>>

\* ------------------------------------------------------------ migrar_sqlserver_a_mysql.py main
\* The whole database, or "Todas las tablas": the table list and the
\* confirmation.
MigMain_AllTables ==
  /\ pc = "plan"
  /\ IF srcDb.tables = <<>> THEN ExitInTry("no_tables") /\ todo' = todo
     ELSE \E yes \in BOOLEAN :
            IF yes THEN /\ todo' = srcDb.tables
                        /\ pc' = "copy"
                        /\ outcome' = outcome
            ELSE ExitInTry("declined") /\ todo' = todo
  /\ only_cols' = <<>>
  /\ UNCHANGED <<env, conn, db, mysql_table, table, pk_sql, pk_mysql, upd_cols, where_clause, batch_size, loop, hist>>

\* Columns left out that are NOT NULL and have no DEFAULT.
Risky(meta, chosen) ==
  SelectSeq(meta, LAMBDA c : ~Contains(chosen, c.name) /\ ~c.nullable /\ c.default = "None")

\* "Una sola tabla": the table, then all columns or a chosen subset.
MigMain_OneTable ==
  /\ pc = "plan"
  /\ IF srcDb.tables = <<>> THEN ExitInTry("no_tables") /\ UNCHANGED <<todo, only_cols>>
     ELSE \E t \in Range(srcDb.tables), some \in BOOLEAN, sel \in Selections, yes \in BOOLEAN :
            LET meta == fetch_columns_sqlserver(srcDb.identity)
                chosen == choose_columns_interactive(ColNames(meta), sel)
            IN  IF ~some THEN /\ todo' = <<t>>
                              /\ only_cols' = <<>>
                              /\ pc' = "copy"
                              /\ outcome' = outcome
                ELSE IF ~chosen.ok THEN ExitInTry("missing_columns") /\ UNCHANGED <<todo, only_cols>>
                ELSE IF Risky(meta, chosen.cols) # <<>> /\ ~yes THEN ExitInTry("declined") /\ UNCHANGED <<todo, only_cols>>
                ELSE /\ todo' = <<t>>
                     /\ only_cols' = chosen.cols
                     /\ pc' = "copy"
                     /\ outcome' = outcome
  /\ UNCHANGED <<env, conn, db, mysql_table, table, pk_sql, pk_mysql, upd_cols, where_clause, batch_size, loop, hist>>

\* copy_table up to its loop: metadata, CREATE TABLE IF NOT EXISTS and commit,
\* the SELECT and the INSERT statement.
copy_table_Begin ==
  /\ pc = "copy"
  /\ todo # <<>>
  /\ LET t == Head(todo)
         cols == CopyCols(ColNames(fetch_columns_sqlserver(srcDb.identity)), only_cols)
         pk == CopyPk(srcDb.pk, only_cols)
     IN  /\ table' = t
         /\ pk_sql' = pk
         /\ working' = CreateTableIfNotExists(working, t, cols, pk)
         /\ committed' = Commit(working', committed)
         /\ stmt' = InsertStatement(t, cols)
         /\ pk_cols' = pk
         /\ \E order \in SelectOrders(srcDb.rows[t], pk) : OpenCursor(order, cols, NoWhere)
  /\ tx' = FALSE
  /\ batch_size' \in 1..MaxBatch
  /\ tgtLog' = tgtLog \cup {"ddl", "commit"}
  /\ pc' = "fetch"
  /\ UNCHANGED <<outcome, env, conn, mysql_table, todo, only_cols, pk_mysql, upd_cols, where_clause, failed, interrupted, fetches, run, atStart>>

\* copy_table's loop; when it ends, main goes on with the next table.
copy_table_Fetch ==
  /\ mode = "CREATE"
  /\ LoopFetch(IF Len(todo) > 1 THEN "copy" ELSE "finally", IF Len(todo) > 1 THEN outcome ELSE "ok")
  /\ todo' = IF rows' = <<>> THEN Tail(todo) ELSE todo

copy_table_Write == mode = "CREATE" /\ LoopWrite

copy_table_Commit == mode = "CREATE" /\ LoopCommit

\* ------------------------------------------------------------ specifications
Next ==
  \/ ConnectSqlServer
  \/ ConnectMysql
  \/ ActMain_ChooseTable
  \/ ActMain_Columns
  \/ ActMain_MysqlPk
  \/ ActMain_Confirm
  \/ update_only_Begin
  \/ update_only_Fetch
  \/ update_only_Write
  \/ update_only_Commit
  \/ upsert_mode_Begin
  \/ upsert_mode_Fetch
  \/ upsert_mode_Write
  \/ upsert_mode_Commit
  \/ MigMain_AllTables
  \/ MigMain_OneTable
  \/ copy_table_Begin
  \/ copy_table_Fetch
  \/ copy_table_Write
  \/ copy_table_Commit
  \/ Except
  \/ Finally
  \/ KeyboardInterrupt
  \/ PromptInterrupt

Spec == Init /\ [][Next]_vars

\* The same job run again on the database the first run left: same answers
\* at the prompts, both connections opened anew.
Rerun ==
  /\ pc = "done"
  /\ outcome = "ok"
  /\ run = 1
  /\ run' = 2
  /\ atStart' = committed
  /\ pc' = "try"
  /\ outcome' = ""
  /\ sql_cnx' = "open"
  /\ mysql_cnx' = "open"
  /\ stmt' = NoStmt
  /\ pk_cols' = <<>>
  /\ cursor' = <<>>
  /\ rows' = <<>>
  /\ rowcount' = 0
  /\ total' = 0
  /\ result' = <<>>
  /\ reported' = -1
  /\ writes' = <<>>
  /\ fetches' = 0
  /\ UNCHANGED <<env, db, inp, failed, tgtLog, interrupted>>

\* UPSERT jobs of actualizar.py over the richer tables, without outside
\* failures, each run once or twice.
InitUpsert == InitWith({"UPSERT"}, UpsertCatalogs, UpsertTargets, FALSE) /\ DdlIdle

NextUpsert ==
  \/ ConnectSqlServer
  \/ ConnectMysql
  \/ ActMain_ChooseTable
  \/ ActMain_Columns
  \/ ActMain_MysqlPk
  \/ ActMain_Confirm
  \/ upsert_mode_Begin
  \/ upsert_mode_Fetch
  \/ upsert_mode_Write
  \/ upsert_mode_Commit
  \/ Finally
  \/ Rerun

SpecUpsert == InitUpsert /\ [][NextUpsert]_vars

\* UPDATE jobs of actualizar.py over the richer tables, where the target's
\* key may be another column than the source's, with failures and interrupts.
InitUpdate == InitWith({"UPDATE"}, UpsertCatalogs, UpsertTargets, TRUE) /\ DdlIdle

NextUpdate ==
  \/ ConnectSqlServer
  \/ ConnectMysql
  \/ ActMain_ChooseTable
  \/ ActMain_Columns
  \/ ActMain_MysqlPk
  \/ ActMain_Confirm
  \/ update_only_Begin
  \/ update_only_Fetch
  \/ update_only_Write
  \/ update_only_Commit
  \/ Except
  \/ Finally
  \/ KeyboardInterrupt
  \/ PromptInterrupt

SpecUpdate == InitUpdate /\ [][NextUpdate]_vars

\* ------------------------------------------------------------ build_create_table_mysql
\* Column metadata as fetch_columns_sqlserver returns it: a varchar column
\* with each of the defaults, and columns of other types and flags.
ColumnSamples ==
  {[name |-> "a", type |-> "varchar", char_len |-> 50, num_prec |-> 0, num_scale |-> 0,
    nullable |-> TRUE, is_identity |-> FALSE, default |-> d] : d \in DefaultSamples}
  \cup
  {[name |-> "id", type |-> "int", char_len |-> 0, num_prec |-> 10, num_scale |-> 0,
    nullable |-> FALSE, is_identity |-> i, default |-> <<>>] : i \in BOOLEAN}
  \cup
  {[name |-> "b", type |-> t[1], char_len |-> t[2], num_prec |-> t[3], num_scale |-> t[4],
    nullable |-> TRUE, is_identity |-> FALSE, default |-> <<>>] :
     t \in {<<"nvarchar", -1, 0, 0>>, <<"decimal", 0, 10, 2>>, <<"numeric", 0, 0, 0>>, <<"datetime2", 0, 0, 0>>, <<"geography", 0, 0, 0>>}}

\* Lists of at most n columns.
ColumnLists(n) == UNION {[1..k -> ColumnSamples] : k \in 1..n}

MaxDdlCols == 2

\* build_create_table_mysql is called with a table's columns and key.
InitDdl ==
  /\ InitWith({"CREATE"}, {[tables |-> <<>>, pk |-> <<>>, identity |-> {}, rows |-> [n \in TableNames |-> {}]]}, {[n \in TableNames |-> NoTable]}, FALSE)
  /\ columns \in ColumnLists(MaxDdlCols)
  /\ ddl_pk \in {<<>>, <<"id">>}
  /\ parts = <<>>
  /\ create_sql = NoCreate

\* for col in columns: one pass of the loop.
build_create_table_mysql_Column ==
  /\ Len(parts) < Len(columns)
  /\ create_sql = NoCreate
  /\ parts' = Append(parts, ColumnDefinition(columns[Len(parts) + 1]))
  /\ UNCHANGED <<pc, outcome, script, mode, srcDb, tgt0, faults, columns, ddl_pk, create_sql, conn, db, inp, loop, hist>>

\* After the loop: the PRIMARY KEY part when there is a key, and the statement.
build_create_table_mysql_Return ==
  /\ Len(parts) = Len(columns)
  /\ create_sql = NoCreate
  /\ create_sql' = [table |-> "t1", parts |-> parts, pk |-> ddl_pk]
  /\ UNCHANGED <<pc, outcome, script, mode, srcDb, tgt0, faults, columns, ddl_pk, parts, conn, db, inp, loop, hist>>

NextDdl ==
  \/ build_create_table_mysql_Column
  \/ build_create_table_mysql_Return

SpecDdl == InitDdl /\ [][NextDdl]_vars

\* ------------------------------------------------------------ reference values
\* The table the loop writes to, as it was when the loop began.
BaseTable ==
  IF mode = "CREATE" THEN CreateTableIfNotExists(atStart, table, stmt.cols, pk_cols)[table]
  ELSE atStart[stmt.table]

\* The rows of that table once the first n rows of the result set are applied.
RowsAfter(n) == executemany(stmt, BindRows(stmt, SubSeq(result, 1, n), pk_cols), BaseTable).rows

RECURSIVE SumSeq(_)
SumSeq(q) == IF q = <<>> THEN 0 ELSE Head(q) + SumSeq(Tail(q))

\* The source rows of the current table that pass the filter.
Matching == {r \in srcDb.rows[table] : where_clause = NoWhere \/ r["a"] = where_clause}

\* ceil(n / b) batches: all of size b but the last.
CeilDiv(n, b) == (n + b - 1) \div b

BatchSizes(n, b) == [i \in 1..CeilDiv(n, b) |-> IF i < CeilDiv(n, b) THEN b ELSE n - b * (CeilDiv(n, b) - 1)]

\* ------------------------------------------------------------ claims
\* C1: when the write of batch k fails, the run returns with the target
\* holding exactly the effects of batches 1..k-1 (all committed), nothing of
\* batch k, and no transaction left open; a successful rollback leaves the
\* connection's view equal to the committed state.
C1_BatchAtomicity ==
  /\ (pc = "done" /\ failed > 0) =>
       /\ Len(writes) = failed - 1
       /\ committed[stmt.table].rows = RowsAfter((failed - 1) * batch_size)
       /\ working = committed
       /\ ~tx
  /\ (pc = "finally" /\ failed > 0 /\ ~tx) => working = committed

C1_Witness ==
  /\ pc = "done"
  /\ failed = 2
  /\ mode = "UPSERT"
  /\ Len(committed[stmt.table].rows) > Len(tgt0[stmt.table].rows)

\* C2: Create+copy of N rows with batch size B into an absent or empty target
\* makes ceil(N/B) writes of sizes B, ..., B, N - B*(ceil(N/B)-1), leaves N rows
\* in the target and reports N.
C2_CreateBatching ==
  (mode = "CREATE" /\ reported >= 0 /\ tgt0[table].rows = <<>>) =>
    /\ writes = BatchSizes(Cardinality(srcDb.rows[table]), batch_size)
    /\ Len(committed[table].rows) = Cardinality(srcDb.rows[table])
    /\ reported = Cardinality(srcDb.rows[table])

C2_Witness ==
  /\ mode = "CREATE"
  /\ reported = 3
  /\ batch_size = 2
  /\ writes = <<2, 1>>
  /\ Len(committed[table].rows) = 3

\* C3 as stated: UPDATE on a source table without primary key fails its
\* validation before any statement of any kind has been sent to MySQL.
C3_NoTargetQueryAtAll ==
  (mode = "UPDATE" /\ outcome = "no_source_pk") => tgtLog = {}

\* C3 as amended: in an UPDATE run on a source table without primary key the
\* only statement MySQL ever receives is the catalogue query for the target's
\* key; no row is fetched, nothing is written, and a run whose summary was
\* confirmed and not interrupted ends with the validation error.
C3_OnlyCatalogQuery ==
  (mode = "UPDATE" /\ table # "" /\ srcDb.pk = <<>>) =>
    /\ tgtLog \subseteq {"catalog"}
    /\ fetches = 0
    /\ stmt = NoStmt
    /\ committed = tgt0
    /\ working = tgt0
    /\ (pc = "finally" /\ ~interrupted) => outcome = "no_source_pk"

C3_Witness ==
  /\ mode = "UPDATE"
  /\ srcDb.pk = <<>>
  /\ pc = "done"
  /\ outcome = "no_source_pk"
  /\ tgtLog = {"catalog"}

\* The ways a run ends that the specification lists.
C4_Endings == {"ok", "no_source_pk", "no_target_pk", "missing_columns", "bad_table", "declined", "no_tables", "error", "interrupted"}

\* C4: whichever way the run ends (success, validation failure, declined
\* confirmation, empty table list, write failure, interrupt), no connection
\* that was opened is still open.
C4_AllExitsClose ==
  (pc = "done" /\ outcome \in C4_Endings) => (sql_cnx # "open" /\ mysql_cnx # "open")

\* C5: the SET clause of the generated UPDATE holds exactly the selected
\* columns that are not key columns, whatever the selection.
C5_NoKeyInSet ==
  (mode = "UPDATE" /\ stmt.kind = "UPDATE") =>
    /\ Range(stmt.set) \cap Range(pk_sql) = {}
    /\ Range(stmt.set) = Range(upd_cols) \ Range(pk_sql)
    /\ Len(stmt.set) = Cardinality({i \in 1..Len(upd_cols) : ~Contains(pk_sql, upd_cols[i])})
    /\ stmt.where = pk_sql

C5_Witness ==
  /\ stmt.kind = "UPDATE"
  /\ upd_cols = <<"id", "a">>
  /\ pk_sql = <<"id">>
  /\ stmt.set = <<"a">>

\* C9: the count UPDATE and UPSERT report is the number of source rows that
\* pass the filter, whatever the target holds.
C9_RowsConsidered ==
  (mode \in {"UPDATE", "UPSERT"} /\ reported >= 0) => reported = Cardinality(Matching)

C9_Witness ==
  /\ mode = "UPDATE"
  /\ reported = 1
  /\ where_clause = 1
  /\ Cardinality(srcDb.rows[table]) = 3
  /\ pc = "done"
  /\ Len(tgt0[stmt.table].rows) = 1
  /\ committed = tgt0

\* C10: once a KeyboardInterrupt is raised nothing more is fetched from the
\* source or sent to MySQL; when main returns from an interrupt in the data
\* phase the target holds exactly the committed batches, no transaction is
\* open and both connections are closed.
C10_AfterInterrupt ==
  (interrupted /\ outcome = "interrupted") =>
    /\ pc \in {"finally", "done"}
    /\ pc = "done" =>
         /\ sql_cnx = "closed"
         /\ mysql_cnx = "closed"
         /\ ~tx
         /\ working = committed
         /\ stmt # NoStmt => committed[stmt.table].rows = RowsAfter(SumSeq(writes))

C10_Witness ==
  /\ interrupted
  /\ outcome = "interrupted"
  /\ pc = "done"
  /\ writes # <<>>
  /\ Len(rows) > 0
  /\ SumSeq(writes) < Len(result) - Len(cursor)

\* ------------------------------------------------------------ UPSERT claims
\* The columns the user selected that are not columns of the upsert key.
SelectedNonKey == {c \in Range(upd_cols) : ~Contains(pk_cols, c)}

\* The value fetched row r carries for column c.
Fetched(r, c) == r[IndexOf(stmt.cols, c)]

\* The upsert of one fetched row r as the specification words it: keyed on
\* the upsert key pk_cols; a new row when no row has the key, else the
\* selected non-key columns of the rows that have it are overwritten.
UpsertRowRef(trows, r) ==
  LET hits == {i \in 1..Len(trows) : KeyOf(trows[i], pk_cols) = SubSeq(r, 1, Len(pk_cols))}
  IN  IF hits = {}
      THEN Append(trows, [c \in Range(AllCols) |->
                            IF Contains(pk_cols, c) \/ c \in SelectedNonKey THEN Fetched(r, c) ELSE DefaultVal])
      ELSE [i \in 1..Len(trows) |->
              IF i \in hits
              THEN [c \in DOMAIN trows[i] |-> IF c \in SelectedNonKey THEN Fetched(r, c) ELSE trows[i][c]]
              ELSE trows[i]]

RECURSIVE UpsertBatchRef(_, _)
UpsertBatchRef(trows, batch) ==
  IF batch = <<>> THEN trows ELSE UpsertBatchRef(UpsertRowRef(trows, Head(batch)), Tail(batch))

\* Insert-and-ignore of one fetched row, keyed on the upsert key.
IgnoreRowRef(trows, r) ==
  IF \E i \in 1..Len(trows) : KeyOf(trows[i], pk_cols) = SubSeq(r, 1, Len(pk_cols))
  THEN trows
  ELSE Append(trows, [c \in Range(AllCols) |-> IF Contains(pk_cols, c) THEN Fetched(r, c) ELSE DefaultVal])

RECURSIVE IgnoreBatchRef(_, _)
IgnoreBatchRef(trows, batch) ==
  IF batch = <<>> THEN trows ELSE IgnoreBatchRef(IgnoreRowRef(trows, Head(batch)), Tail(batch))

\* The table the statements write to declares the upsert key as its key.
TargetKeyIsUpsertKey == working[stmt.table].pk = pk_cols

\* No two source rows that pass the filter have the same upsert key.
SourceKeysUnique == \A r1, r2 \in Matching : r1 # r2 => KeyOf(r1, pk_cols) # KeyOf(r2, pk_cols)

\* Every source row that passes the filter is a row of the table: the fetched
\* columns carry its values.
AllInserted(trows) ==
  /\ Len(trows) = Cardinality(Matching)
  /\ \A r \in Matching : \E i \in 1..Len(trows) : \A c \in Range(stmt.cols) : trows[i][c] = r[c]

SecondRunDone == mode = "UPSERT" /\ run = 2 /\ pc = "done" /\ outcome = "ok"

\* C6 as stated: with the target's declared key the upsert key, the second run
\* of the same job leaves the target as the first run left it, and a first run
\* on an empty target inserts every source row.
C6_IdempotentAsStated ==
  (SecondRunDone /\ TargetKeyIsUpsertKey) =>
    /\ committed = atStart
    /\ tgt0[stmt.table].rows = <<>> => AllInserted(atStart[stmt.table].rows)

\* C6 as amended: the same, for a source in which no two rows have the same
\* upsert key (as when the source declares that key).
C6_Idempotent ==
  (SecondRunDone /\ TargetKeyIsUpsertKey /\ SourceKeysUnique) =>
    /\ committed = atStart
    /\ tgt0[stmt.table].rows = <<>> => AllInserted(atStart[stmt.table].rows)

C6_Witness ==
  /\ SecondRunDone
  /\ TargetKeyIsUpsertKey
  /\ SourceKeysUnique
  /\ tgt0[stmt.table].rows = <<>>
  /\ Len(committed[stmt.table].rows) = 2
  /\ stmt.kind = "UPSERT"
  /\ committed = atStart

\* C7 as stated: every written batch changes the target as the row-by-row
\* upsert on the upsert key does.
C7_RowSemanticsAsStated ==
  (mode = "UPSERT" /\ pc = "commit") =>
    working[stmt.table].rows = UpsertBatchRef(committed[stmt.table].rows, rows)

\* C7 as amended: the same, when the table written to declares the upsert key
\* as its primary key.
C7_RowSemantics ==
  (mode = "UPSERT" /\ pc = "commit" /\ TargetKeyIsUpsertKey) =>
    working[stmt.table].rows = UpsertBatchRef(committed[stmt.table].rows, rows)

C7_Witness ==
  /\ mode = "UPSERT"
  /\ pc = "commit"
  /\ TargetKeyIsUpsertKey
  /\ stmt.set = <<"a">>
  /\ Len(working[stmt.table].rows) > Len(committed[stmt.table].rows)
  /\ \E i \in 1..Len(committed[stmt.table].rows) :
       /\ working[stmt.table].rows[i]["a"] # committed[stmt.table].rows[i]["a"]
       /\ working[stmt.table].rows[i]["b"] = 2

\* C8 as stated: with no non-key column selected the run does not fail; the
\* statement is an insert-and-ignore on the upsert key.
C8_InsertIgnoreAsStated ==
  (mode = "UPSERT" /\ stmt # NoStmt /\ SelectedNonKey = {}) =>
    /\ stmt.kind = "INSERT IGNORE"
    /\ failed = 0
    /\ pc # "except"
    /\ pc = "commit" => working[stmt.table].rows = IgnoreBatchRef(committed[stmt.table].rows, rows)

\* C8 as amended: the same, the effect on the rows being claimed when the
\* table written to declares the upsert key as its primary key.
C8_InsertIgnore ==
  (mode = "UPSERT" /\ stmt # NoStmt /\ SelectedNonKey = {}) =>
    /\ stmt.kind = "INSERT IGNORE"
    /\ failed = 0
    /\ pc # "except"
    /\ (pc = "commit" /\ TargetKeyIsUpsertKey) =>
         working[stmt.table].rows = IgnoreBatchRef(committed[stmt.table].rows, rows)

C8_Witness ==
  /\ mode = "UPSERT"
  /\ pc = "commit"
  /\ stmt.kind = "INSERT IGNORE"
  /\ TargetKeyIsUpsertKey
  /\ Len(rows) = 2
  /\ Len(working[stmt.table].rows) = Len(committed[stmt.table].rows) + 1

\* ------------------------------------------------------------ halting, planning and frame claims
\* Table t holds, committed, every source row of t besides the rows it had.
FullyCopied(t, cols, dbase) ==
  /\ Len(dbase[t].rows) = Len(tgt0[t].rows) + Cardinality(srcDb.rows[t])
  /\ \A r \in srcDb.rows[t] : \E i \in 1..Len(dbase[t].rows) : \A c \in Range(cols) : dbase[t].rows[i][c] = r[c]

\* C11: once the write of a batch has failed nothing more is fetched, written,
\* created or committed: the only steps left are the rollback and the closing
\* of the connections. A table of a Create+copy job is fully committed when
\* the job leaves it, and no step changes a table other than the one in work,
\* so the tables completed before the failure stay as they were completed.
C11_HaltsAfterFailure ==
  [][ /\ (mode = "CREATE" /\ Len(todo') < Len(todo)) => FullyCopied(table, stmt.cols, committed')
      /\ mode = "CREATE" => \A t \in TableNames : t # table' => committed'[t] = committed[t]
      /\ failed > 0 =>
           /\ failed' = failed
           /\ fetches' = fetches
           /\ cursor' = cursor
           /\ writes' = writes
           /\ stmt' = stmt
           /\ table' = table
           /\ todo' = todo
           /\ committed' = committed
           /\ working' \in {working, committed}
           /\ tgtLog' \subseteq tgtLog \cup {"rollback"}
           /\ pc' \in {"finally", "done"} ]_vars

C11_Witness ==
  /\ mode = "CREATE"
  /\ pc = "done"
  /\ outcome = "error"
  /\ failed = 1
  /\ table = "t2"
  /\ todo = <<"t2">>
  /\ tgt0["t1"].rows = <<>>
  /\ Len(committed["t1"].rows) = 3
  /\ committed["t2"].rows = <<>>
  /\ Len(result) = 1

\* C12 as stated: with a column subset, the columns copy_table fetches,
\* creates and inserts are the source key columns united with the selected
\* columns.
C12_KeyColumnsAlwaysFetched ==
  (mode = "CREATE" /\ stmt # NoStmt /\ only_cols # <<>>) =>
    Range(stmt.cols) = Range(srcDb.pk) \cup Range(only_cols)

\* C12 as amended: with a column subset, the columns fetched, created and
\* inserted are exactly the selected columns, in catalogue order; a key column
\* that was not selected is left out, and the key declared for the created
\* table is the source key restricted to the selected columns.
C12_OnlySelectedColumns ==
  (mode = "CREATE" /\ stmt # NoStmt /\ only_cols # <<>>) =>
    /\ stmt.cols = SelectSeq(AllCols, LAMBDA c : Contains(only_cols, c))
    /\ pk_cols = SelectSeq(srcDb.pk, LAMBDA c : Contains(only_cols, c))
    /\ \A i \in 1..Len(result) : Len(result[i]) = Len(stmt.cols)
    /\ ~tgt0[table].exists =>
         /\ committed[table].cols = stmt.cols
         /\ committed[table].pk = pk_cols

C12_Witness ==
  /\ mode = "CREATE"
  /\ only_cols = <<"b", "a">>
  /\ srcDb.pk = <<"id">>
  /\ stmt.cols = <<"a", "b">>
  /\ ~tgt0[table].exists
  /\ committed[table].pk = <<>>
  /\ pc = "done"
  /\ outcome = "ok"
  /\ reported = 3

\* C13: an UPSERT run whose target table (the table the user named) declares
\* no primary key sends nothing but the catalogue query to MySQL, fetches no
\* source row, and ends with the validation error as soon as the key has been
\* looked up.
C13_UpsertNeedsTargetKey ==
  (mode = "UPSERT" /\ mysql_table # "" /\ tgt0[mysql_table].pk = <<>>) =>
    /\ tgtLog \subseteq {"catalog"}
    /\ fetches = 0
    /\ stmt = NoStmt
    /\ result = <<>>
    /\ committed = tgt0
    /\ working = tgt0
    /\ "catalog" \in tgtLog => (pc = "done" /\ outcome = "no_target_pk")

C13_Witness ==
  /\ mode = "UPSERT"
  /\ pc = "done"
  /\ outcome = "no_target_pk"
  /\ tgt0[mysql_table].exists
  /\ tgt0[mysql_table].pk = <<>>
  /\ Len(tgt0[mysql_table].rows) = 2
  /\ srcDb.pk = <<"id">>
  /\ Cardinality(srcDb.rows[table]) = 3
  /\ upd_cols = <<"a">>

\* The default expression without blanks and parentheses around it (the
\* parentheses of a call without arguments go with them).
Bare(d) == Strip(Strip(d, Whitespace), {"(", ")"})

\* The four kinds of default the specification says are translated.
IsTimestampSpelling(d) == Lower(Bare(d)) \in {<<"g", "e", "t", "d", "a", "t", "e">>, <<"g", "e", "t", "u", "t", "c", "d", "a", "t", "e">>, <<"s", "y", "s", "d", "a", "t", "e", "t", "i", "m", "e">>, <<"s", "y", "s", "u", "t", "c", "d", "a", "t", "e", "t", "i", "m", "e">>, <<"c", "u", "r", "r", "e", "n", "t", "_", "t", "i", "m", "e", "s", "t", "a", "m", "p">>}

IsIdGenerator(d) == Lower(Bare(d)) \in {<<"n", "e", "w", "i", "d">>, <<"n", "e", "w", "s", "e", "q", "u", "e", "n", "t", "i", "a", "l", "i", "d">>}

IsNumericLiteral(d) == IsFloat(Bare(d))

IsStringLiteral(d) ==
  LET b == IF Bare(d) # <<>> /\ Head(Bare(d)) = "N" THEN Tail(Bare(d)) ELSE Bare(d)
  IN  Len(b) >= 2 /\ Head(b) = "'" /\ b[Len(b)] = "'"

Unrecognized(d) ==
  /\ d # <<>>
  /\ ~IsTimestampSpelling(d)
  /\ ~IsIdGenerator(d)
  /\ ~IsNumericLiteral(d)
  /\ ~IsStringLiteral(d)

\* C14: the definition built for a column whose default is none of the four
\* kinds has no DEFAULT clause.
C14_UnrecognizedDropped ==
  \A i \in 1..Len(parts) : Unrecognized(columns[i].default) => parts[i].default = NoDefault

\* The rows fetchmany returned last, as they stand in the result set.
FetchedSlice == SubSeq(result, Len(result) - Len(cursor) - Len(rows) + 1, Len(result) - Len(cursor))

\* C15: while a batch of an UPDATE run is being written, the tuple bound for
\* each fetched row has one value per placeholder: first the values of the SET
\* columns, in SET order, then the values of the key columns, in WHERE order,
\* all of the same source row; the batch is still what was fetched; and after
\* the write every target row with the key of a row of the batch carries that
\* row's values in the SET columns.
C15_BindOrder ==
  (mode = "UPDATE" /\ pc \in {"write", "commit"}) =>
    /\ rows = FetchedSlice
    /\ \A i \in 1..Len(rows) :
         LET t == BindUpdate(rows[i], pk_cols)
         IN  /\ Len(t) = Len(stmt.set) + Len(stmt.where)
             /\ Len(rows[i]) = Len(t)
             /\ \E r \in srcDb.rows[table] :
                  /\ \A j \in 1..Len(stmt.where) : rows[i][j] = r[stmt.where[j]]
                  /\ \A j \in 1..Len(stmt.set) : t[j] = r[stmt.set[j]]
                  /\ \A j \in 1..Len(stmt.where) : t[Len(stmt.set) + j] = r[stmt.where[j]]
    /\ pc = "commit" =>
         \A n \in 1..Len(working[stmt.table].rows), r \in srcDb.rows[table] :
           (/\ \E i \in 1..Len(rows) : rows[i] = Project(r, stmt.where \o stmt.set)
            /\ KeyOf(working[stmt.table].rows[n], stmt.where) = KeyOf(r, stmt.where))
           => \A c \in Range(stmt.set) : working[stmt.table].rows[n][c] = r[c]

C15_Witness ==
  /\ mode = "UPDATE"
  /\ pc = "commit"
  /\ stmt.where = <<"id", "a">>
  /\ stmt.set = <<"b">>
  /\ Len(rows) = 2
  /\ working # committed

\* C16: in the three loops a fetch is issued only when MySQL holds nothing
\* uncommitted; a fetched batch that is not empty goes to one executemany,
\* which leaves it uncommitted, and then to one commit, which makes it the
\* committed state and returns to the fetch; the committed batches are the
\* fetched rows in order, and a loop that ends normally over n batches has
\* made n commits.
C16_WriteCommitDiscipline ==
  /\ [](  /\ pc = "fetch" =>
               /\ ~tx
               /\ working = committed
               /\ SumSeq(writes) = Len(result) - Len(cursor)
          /\ (pc = "done" /\ outcome = "ok" /\ stmt # NoStmt) =>
               /\ writes = BatchSizes(Len(result), batch_size)
               /\ Len(writes) = CeilDiv(Len(result), batch_size)
               /\ \A i \in 1..Len(writes) : writes[i] > 0  )
  /\ [][ /\ fetches' # fetches => (~tx /\ working = committed /\ fetches' = fetches + 1)
         /\ (pc = "fetch" /\ pc' = "write") => (rows' # <<>> /\ writes' = writes /\ UNCHANGED db)
         /\ (pc = "fetch" /\ pc' # "write" /\ ~interrupted') => (rows' = <<>> /\ writes' = writes /\ UNCHANGED db)
         /\ pc = "write" => pc' \in {"commit", "except", "finally"}
         /\ (pc = "write" /\ pc' = "commit") => (tx' /\ committed' = committed /\ writes' = writes /\ fetches' = fetches)
         /\ (pc = "commit" /\ ~interrupted') =>
              /\ pc' = "fetch"
              /\ committed' = working
              /\ working' = working
              /\ ~tx'
              /\ writes' = Append(writes, Len(rows))
              /\ fetches' = fetches ]_vars

C16_Witness ==
  /\ mode = "UPDATE"
  /\ pc = "done"
  /\ outcome = "ok"
  /\ Len(result) = 3
  /\ batch_size = 2
  /\ writes = <<2, 1>>
  /\ fetches = 3
  /\ committed # tgt0

\* The columns an UPDATE run may change in table t: the selected columns that
\* are not key columns, in the table it writes to.
MayChange(t) == IF t = table THEN Range(upd_cols) \ Range(pk_sql) ELSE {}

\* C17: at every point of an UPDATE run each table of the target has the rows
\* it had, in number and in key; each column that is not a selected non-key
\* column has the value it had; a row whose key no source row carries is as it
\* was; and when main has returned nothing uncommitted is left.
C17_UpdateFrame ==
  mode = "UPDATE" =>
    /\ \A t \in TableNames :
         /\ committed[t].exists = tgt0[t].exists
         /\ committed[t].pk = tgt0[t].pk
         /\ Len(committed[t].rows) = Len(tgt0[t].rows)
         /\ \A i \in 1..Len(tgt0[t].rows) :
              /\ \A c \in DOMAIN tgt0[t].rows[i] : c \notin MayChange(t) => committed[t].rows[i][c] = tgt0[t].rows[i][c]
              /\ KeyOf(committed[t].rows[i], pk_sql) = KeyOf(tgt0[t].rows[i], pk_sql)
              /\ (t # table \/ \A r \in Matching : KeyOf(r, pk_sql) # KeyOf(tgt0[t].rows[i], pk_sql))
                   => committed[t].rows[i] = tgt0[t].rows[i]
    /\ pc = "done" => working = committed

C17_Witness ==
  /\ mode = "UPDATE"
  /\ pc = "done"
  /\ outcome = "ok"
  /\ pk_sql = <<"id">>
  /\ tgt0[table].pk = <<"a">>
  /\ Len(tgt0[table].rows) = 2
  /\ committed[table].rows[1] # tgt0[table].rows[1]
  /\ committed[table].rows[2] = tgt0[table].rows[2]
  /\ KeyOf(tgt0[table].rows[1], pk_sql) # KeyOf(tgt0[table].rows[2], pk_sql)

====
